---- MODULE Spec2Model ----
(***************************************************************************)
(* Model of BatchedUsageRecordStrategy (src/stripe/batched-usage-record-   *)
(* strategy.ts): the pending-usage map, the recurring flush timer, the     *)
(* disposed flag, and the asynchronous calls recordUsage, dispose and the  *)
(* timer callback, interleaved at their await points (the subscription     *)
(* resolver and stripe.subscriptionItems.createUsageRecord).               *)
(***************************************************************************)
EXTENDS Integers, Sequences, FiniteSets, TLC

\* ---------------------------------------------------------------- bounds
MaxCalls == 3            \* asynchronous invocations started in one run
MaxBatchSize == 2        \* config.maxBatchSize of the instance under test
MaxServiceCalls == 2     \* invocations of MeteringService started in one run
MaxFactoryCalls == 2     \* calls of MeteringServiceFactory.createService in one run
MaxImmediateCalls == 3   \* invocations of the immediate strategy started in one run
MaxFlushCalls == 2       \* direct calls of flushBatch started in one run
MaxRecordCalls == 2      \* recordUsage calls started on a strategy with stored batches
MaxSweeps == 2           \* callbacks of the interval timer in one run of the sweep

\* ---------------------------------------------------------------- inputs
Undefined == "<undefined>"                 \* a missing customerId argument
\* the (customerId, usageValue) arguments recordUsage is called with: valid
\* ones for two customers, and each way of failing the input checks
RecordInputs == {<<"cus_a", 1>>, <<"cus_a", 2>>, <<"cus_b", 1>>,
                 <<"", 1>>, <<Undefined, 1>>, <<"cus_a", 0>>, <<"cus_a", -1>>,
                 <<"", 0>>, <<"cus_missing", 1>>}
\* the null or empty string a resolver may return instead of a key
NullKey == "<null>"
\* the values the Map is keyed by: whatever getSubscriptionItemId returned
Keys == {"si_1", "si_2", NullKey}
Calls == 1..MaxCalls

\* the integrator's getSubscriptionItemId override, when it returns
KeyOf(customerId) ==
    IF customerId = "cus_a" THEN "si_1"
    ELSE IF customerId = "cus_missing" THEN NullKey
    ELSE "si_2"

\* JavaScript truthiness of the customerId argument (`!customerId`)
Falsy(customerId) == customerId \in {"", Undefined}

NoReq == [key |-> "", quantity |-> 0, action |-> ""]

\* StripeUsageAction.INCREMENT
INCREMENT == "increment"

VARIABLES
    pendingUsage,    \* Map<string, BatchedUsageRecord[]>: the array of each key
    keyOrder,        \* the keys the Map holds, in insertion order
    flushInterval,   \* TRUE while the setInterval handle is held, FALSE when null
    disposed,        \* this.disposed
    flushOnDispose,  \* this.flushOnDispose (fixed at construction)
    task,            \* the asynchronous invocations and where each one stands
    resolverCalls,   \* history: calls made to getSubscriptionItemId
    submitted,       \* history: createUsageRecord calls issued, per key
    timerClears,     \* history: clearInterval calls
    sinceAck,        \* history: entries pushed per key since its last acknowledged flush
    acked,           \* history: total quantity createUsageRecord acknowledged, per key
    failedPending,   \* history: a flush of the key failed and none succeeded since
    svcStrategy,     \* MeteringService.strategy: the shape of the object plugged in
    svcCall,         \* the invocations of MeteringService and where each one stands
    strategyLog,     \* history: the calls MeteringService made on its strategy
    factoryCall,     \* the calls of createService and what each one returned or threw
    constructed,     \* history: the strategy objects the factory constructed
    imDisposed,      \* ImmediateMeterEventStrategy.disposed
    imCall,          \* the invocations of the immediate strategy and where each stands
    meterEvents      \* history: the meterEvents.create calls issued

serviceVars == <<svcStrategy, svcCall, strategyLog>>
factoryVars == <<factoryCall, constructed>>
immediateVars == <<imDisposed, imCall, meterEvents>>

\* the state of the components around the batching strategy
otherVars == <<serviceVars, factoryVars, immediateVars>>

\* the state of the batching strategy
strategyVars == <<pendingUsage, keyOrder, flushInterval, disposed, flushOnDispose,
                  task, resolverCalls, submitted, timerClears, sinceAck, acked,
                  failedPending>>

vars == <<pendingUsage, keyOrder, flushInterval, disposed, flushOnDispose, task,
          resolverCalls, submitted, timerClears, sinceAck, acked, failedPending,
          svcStrategy, svcCall, strategyLog, factoryCall, constructed,
          imDisposed, imCall, meterEvents>>

\* ------------------------------------------------------------- helpers
RECURSIVE SumUsage(_)
\* usageRecords.reduce((sum, record) => sum + record.usageValue, 0)
SumUsage(records) ==
    IF records = <<>> THEN 0
    ELSE Head(records).usageValue + SumUsage(Tail(records))

EntryCalls(records) == {records[i].call : i \in 1..Len(records)}

\* this.pendingUsage.has(key)
Has(key) == \E i \in 1..Len(keyOrder) : keyOrder[i] = key

\* no StripeApiError thrown
NoFlushError == [kind |-> "", message |-> <<>>, stripeCode |-> "", statusCode |-> 0,
                 cause |-> [isError |-> FALSE, message |-> "", code |-> "",
                            statusCode |-> 0]]

\* nothing thrown inside recordUsage's try block
NoValue == [isError |-> FALSE, kind |-> "", message |-> <<>>]

\* what getSubscriptionItemId may throw: an Error, or a value that is no
\* Error, given by its string form
ResolverErrors ==
    {[isError |-> TRUE, kind |-> "Error", message |-> <<"Could not find subscription">>],
     [isError |-> FALSE, kind |-> "string", message |-> <<"String error">>]}

\* the StripeApiError flushBatch throws for `key`, as recordUsage catches it
FlushFailure(key) ==
    [isError |-> TRUE, kind |-> "StripeApiError",
     message |-> <<"Failed to flush usage records for subscription item ", key>>]

\* a catch that throws again whatever it caught
RecordUsageCatchRethrowsAny(caught) == caught

\* recordUsage's catch: an Error is thrown again as it is, any other value
\* becomes new Error('Unknown error in recordUsage: ' + String(value))
RecordUsageCatch(caught) ==
    IF caught.isError THEN caught
    ELSE [isError |-> TRUE, kind |-> "Error",
          message |-> <<"Unknown error in recordUsage: ">> \o caught.message]

IdleTask == [op |-> "none", pc |-> "idle", customerId |-> "", usageValue |-> 0,
             req |-> NoReq, todo |-> <<>>, err |-> "", snap |-> {}, resolver |-> "",
             keys |-> <<>>, attempted |-> <<>>, failed |-> {}, nflush |-> 0,
             msg |-> "", error |-> NoFlushError, thrown |-> NoFlushError.cause,
             caught |-> NoValue, rejection |-> NoValue]

\* the next invocation slot: invocations are numbered in the order they start
Fresh(t) == /\ task[t].op = "none"
            /\ \A u \in Calls : u < t => task[u].op # "none"

\* the usage record built by flushBatch for `records` of `key`
UsageRecordParams(key, records) ==
    [key |-> key, quantity |-> SumUsage(records), action |-> INCREMENT]

\* a flushBatch without the guard
NothingToFlushNever(records) == FALSE

\* flushBatch's guard: nothing to do for an absent or empty batch
NothingToFlush(records) == records = <<>>

\* a size trigger that fires only past the maximum
ReachedMaxStrict(records) == Len(records) > MaxBatchSize

\* recordUsage's size trigger
ReachedMax(records) == Len(records) >= MaxBatchSize

\* a loop that returns after the first batch it submits
SweepRunFirstBatchOnly(tk, todo, usage) ==
    IF todo = <<>>
    THEN [tk EXCEPT !.pc = "sweeping", !.todo = <<>>, !.req = NoReq]
    ELSE IF NothingToFlush(usage[Head(todo)])
         THEN [tk EXCEPT !.pc = "sweeping", !.todo = Tail(todo), !.req = NoReq,
                         !.attempted = Append(tk.attempted, Head(todo))]
         ELSE [tk EXCEPT !.pc = "flushing", !.todo = <<Head(todo)>>,
                         !.req = UsageRecordParams(Head(todo), usage[Head(todo)]),
                         !.snap = EntryCalls(usage[Head(todo)]),
                         !.attempted = Append(tk.attempted, Head(todo)),
                         !.nflush = tk.nflush + 1]

\* The synchronous run of flushAllBatches' loop from the top of an iteration
\* to its next await: with no key left the loop is over; on an empty batch
\* flushBatch returns at once and the loop moves on; otherwise flushBatch has
\* computed the aggregate and issued createUsageRecord.
SweepRun(tk, todo, usage) ==
    IF todo = <<>>
    THEN [tk EXCEPT !.pc = "sweeping", !.todo = <<>>, !.req = NoReq]
    ELSE IF NothingToFlush(usage[Head(todo)])
         THEN [tk EXCEPT !.pc = "sweeping", !.todo = Tail(todo), !.req = NoReq,
                         !.attempted = Append(tk.attempted, Head(todo))]
         ELSE [tk EXCEPT !.pc = "flushing", !.todo = todo,
                         !.req = UsageRecordParams(Head(todo), usage[Head(todo)]),
                         !.snap = EntryCalls(usage[Head(todo)]),
                         !.attempted = Append(tk.attempted, Head(todo)),
                         !.nflush = tk.nflush + 1]

\* createUsageRecord calls issued by going from task record `old` to `new`
Issued(old, new, key) ==
    IF new.pc = "flushing" /\ old.pc # "flushing" /\ new.req.key = key THEN 1 ELSE 0

\* ------------------------------------------------- MeteringService
ServiceCalls == 1..MaxServiceCalls

\* the (customerId, usageValue) arguments recordApiCall is called with; the
\* usageValue is <<>> when the argument is left out
ServiceInputs == {<<"customer123", <<>>>>, <<"customer123", <<1>>>>,
                  <<"customer123", <<2>>>>, <<"customer123", <<0>>>>,
                  <<"customer123", <<-1>>>>, <<"", <<1>>>>, <<Undefined, <<1>>>>,
                  <<"", <<0>>>>}

\* the strategies a MeteringService is built on: with a dispose method,
\* without one, with a dispose property that is not a function
StrategyShapes == {[dispose |-> "function"], [dispose |-> "absent"],
                   [dispose |-> "notFunction"]}

NoError == [isError |-> FALSE, kind |-> "", origin |-> "", id |-> 0, message |-> <<>>]

\* what strategy.recordUsage may throw in call c: an Error, one of the
\* library's error classes, or a value that is not an Error
ThrownValues(c) ==
    {[isError |-> TRUE, kind |-> "Error", origin |-> "strategy", id |-> c,
      message |-> <<"Strategy failed">>],
     [isError |-> TRUE, kind |-> "StripeApiError", origin |-> "strategy", id |-> c,
      message |-> <<"Failed to flush usage records">>],
     [isError |-> TRUE, kind |-> "InvalidInputError", origin |-> "strategy", id |-> c,
      message |-> <<"Customer ID is required">>],
     [isError |-> FALSE, kind |-> "string", origin |-> "strategy", id |-> c,
      message |-> <<"String error">>]}

\* the prefix recordApiCall puts in front of the message
FailedMarker == "Failed to record API call: "

IdleServiceCall == [op |-> "none", pc |-> "idle", customerId |-> "",
                    usageValue |-> 0, thrown |-> NoError, error |-> NoError]

FreshService(c) == /\ svcCall[c].op = "none"
                   /\ \A d \in ServiceCalls : d < c => svcCall[d].op # "none"

\* recordApiCall's default parameter: usageValue = 1
UsageOrDefault(usageArg) == IF usageArg = <<>> THEN 1 ELSE usageArg[1]

\* input checks that let a zero usage value through
RecordApiCallErrorNegativeOnly(customerId, usageValue) ==
    IF Falsy(customerId) THEN <<"Customer ID is required">>
    ELSE IF usageValue < 0 THEN <<"Usage value must be greater than zero">>
    ELSE <<>>

\* recordApiCall's input checks: the message of the Error thrown, <<>> if none
RecordApiCallError(customerId, usageValue) ==
    IF Falsy(customerId) THEN <<"Customer ID is required">>
    ELSE IF usageValue <= 0 THEN <<"Usage value must be greater than zero">>
    ELSE <<>>

\* a catch that always throws a new Error built from the message
EnhanceErrorAsNew(value, c) ==
    [isError |-> TRUE, kind |-> "Error", origin |-> "service", id |-> c,
     message |-> IF value.isError THEN <<FailedMarker>> \o value.message
                 ELSE <<FailedMarker, "Unknown error occurred">>]

\* recordApiCall's catch: keep an Error, replace anything else by a new
\* Error, and put the marker in front of its message
EnhanceError(value, c) ==
    LET enhancedError ==
            IF value.isError THEN value
            ELSE [isError |-> TRUE, kind |-> "Error", origin |-> "service", id |-> c,
                  message |-> <<"Unknown error occurred">>]
    IN [enhancedError EXCEPT !.message = <<FailedMarker>> \o @]

\* a check that only looks for the property: 'dispose' in this.strategy
DisposePresent(strategy) == strategy.dispose # "absent"

\* MeteringService.dispose's guard: the property is there and is a function
DisposeCallable(strategy) ==
    strategy.dispose # "absent" /\ strategy.dispose = "function"

\* ------------------------------------------------ MeteringServiceFactory
FactoryCalls == 1..MaxFactoryCalls

\* the configurations createService is called with: none at all (given is
\* FALSE), or an object with any API key and any strategy tag
Configs ==
    {[given |-> FALSE, stripeApiKey |-> Undefined, strategyType |-> Undefined]} \cup
    [given : {TRUE}, stripeApiKey : {"", Undefined, "sk_test_123"},
     strategyType : {"immediate", "batched", "invalid", Undefined}]

NoConfig == [given |-> FALSE, stripeApiKey |-> Undefined, strategyType |-> Undefined]

IdleFactoryCall == [done |-> FALSE, config |-> NoConfig, result |-> "",
                    strategy |-> "", error |-> [kind |-> "", message |-> <<>>]]

FreshFactory(c) == /\ ~factoryCall[c].done
                   /\ \A d \in FactoryCalls : d < c => factoryCall[d].done

\* createService's checks of the configuration: the message of the
\* ConfigurationError thrown before any strategy is chosen, <<>> if none
ConfigError(config) ==
    IF ~config.given THEN <<"Configuration is required">>
    ELSE IF Falsy(config.stripeApiKey) THEN <<"Stripe API key is required">>
    ELSE <<>>

\* a selection that falls back to the batched strategy for any other tag
StrategyForDefaultBatched(config) ==
    IF config.strategyType = "immediate" THEN "ImmediateMeterEventStrategy"
    ELSE "BatchedUsageRecordStrategy"

\* createService's selection: the class constructed for the tag, "" if none
StrategyFor(config) ==
    IF config.strategyType = "immediate" THEN "ImmediateMeterEventStrategy"
    ELSE IF config.strategyType = "batched" THEN "BatchedUsageRecordStrategy"
    ELSE ""

\* ------------------------------------------- ImmediateMeterEventStrategy
ImmediateCalls == 1..MaxImmediateCalls

NoEvent == [customer |-> "", value |-> 0, action |-> ""]

IdleImmediateCall == [op |-> "none", pc |-> "idle", customerId |-> "",
                      usageValue |-> 0, event |-> NoEvent,
                      err |-> "", message |-> ""]

FreshImmediate(t) == /\ imCall[t].op = "none"
                     /\ \A u \in ImmediateCalls : u < t => imCall[u].op # "none"

\* precondition checks that let a zero usage value through
ImmediateRecordUsageErrorNegativeOnly(customerId, usageValue) ==
    IF imDisposed
    THEN <<"Error", "Strategy has been disposed and cannot record usage">>
    ELSE IF Falsy(customerId) THEN <<"InvalidInputError", "Customer ID is required">>
    ELSE IF usageValue < 0
         THEN <<"InvalidInputError", "Usage value must be greater than zero">>
    ELSE <<"", "">>

\* precondition checks that look at the arguments before the disposed flag
ImmediateRecordUsageErrorInputsFirst(customerId, usageValue) ==
    IF Falsy(customerId) THEN <<"InvalidInputError", "Customer ID is required">>
    ELSE IF usageValue <= 0
         THEN <<"InvalidInputError", "Usage value must be greater than zero">>
    ELSE IF imDisposed
         THEN <<"Error", "Strategy has been disposed and cannot record usage">>
    ELSE <<"", "">>

\* the immediate recordUsage's precondition checks, in the order of the
\* code: the class and message of the error thrown, <<"", "">> if none
ImmediateRecordUsageError(customerId, usageValue) ==
    IF imDisposed
    THEN <<"Error", "Strategy has been disposed and cannot record usage">>
    ELSE IF Falsy(customerId) THEN <<"InvalidInputError", "Customer ID is required">>
    ELSE IF usageValue <= 0
         THEN <<"InvalidInputError", "Usage value must be greater than zero">>
    ELSE <<"", "">>

\* the arguments of meterEvents.create
MeterEventParams(customerId, usageValue) ==
    [customer |-> customerId, value |-> usageValue, action |-> INCREMENT]

\* -------------------------------------------------- idle initial values
BatchedIdle ==
    /\ pendingUsage = [k \in Keys |-> <<>>]
    /\ keyOrder = <<>>
    /\ flushInterval = TRUE
    /\ disposed = FALSE
    /\ flushOnDispose = TRUE
    /\ task = [t \in Calls |-> IdleTask]
    /\ resolverCalls = 0
    /\ submitted = [k \in Keys |-> 0]
    /\ timerClears = 0
    /\ sinceAck = [k \in Keys |-> <<>>]
    /\ acked = [k \in Keys |-> 0]
    /\ failedPending = [k \in Keys |-> FALSE]

ServiceIdle ==
    /\ svcStrategy = [dispose |-> "function"]
    /\ svcCall = [c \in ServiceCalls |-> IdleServiceCall]
    /\ strategyLog = <<>>

FactoryIdle ==
    /\ factoryCall = [c \in FactoryCalls |-> IdleFactoryCall]
    /\ constructed = <<>>

ImmediateIdle ==
    /\ imDisposed = FALSE
    /\ imCall = [t \in ImmediateCalls |-> IdleImmediateCall]
    /\ meterEvents = <<>>

\* ---------------------------------------------------------------- Init
Init ==
    /\ pendingUsage = [k \in Keys |-> <<>>]
    /\ keyOrder = <<>>
    /\ flushInterval = TRUE
    /\ disposed = FALSE
    /\ flushOnDispose \in BOOLEAN
    /\ task = [t \in Calls |-> IdleTask]
    /\ resolverCalls = 0
    /\ submitted = [k \in Keys |-> 0]
    /\ timerClears = 0
    /\ sinceAck = [k \in Keys |-> <<>>]
    /\ acked = [k \in Keys |-> 0]
    /\ failedPending = [k \in Keys |-> FALSE]
    /\ svcStrategy = [dispose |-> "function"]
    /\ svcCall = [c \in ServiceCalls |-> IdleServiceCall]
    /\ strategyLog = <<>>
    /\ FactoryIdle
    /\ ImmediateIdle

\* ------------------------------------------------------------- actions

\* the precondition checks without the disposed check
RecordUsageErrorNoDisposedCheck(customerId, usageValue) ==
    IF Falsy(customerId) THEN "InvalidInput"
    ELSE IF usageValue <= 0 THEN "InvalidInput"
    ELSE ""

\* the precondition checks with a usage check that lets zero through
RecordUsageErrorNegativeOnly(customerId, usageValue) ==
    IF disposed THEN "Lifecycle"
    ELSE IF Falsy(customerId) THEN "InvalidInput"
    ELSE IF usageValue < 0 THEN "InvalidInput"
    ELSE ""

\* recordUsage's precondition checks, in order: the error kind thrown, "" if none
RecordUsageError(customerId, usageValue) ==
    IF disposed THEN "Lifecycle"
    ELSE IF Falsy(customerId) THEN "InvalidInput"
    ELSE IF usageValue <= 0 THEN "InvalidInput"
    ELSE ""

\* precondition checks that look at usageValue before customerId
RecordUsageMessageUsageFirst(customerId, usageValue) ==
    IF disposed THEN "Strategy has been disposed and cannot record usage"
    ELSE IF usageValue <= 0 THEN "Usage value must be greater than zero"
    ELSE IF Falsy(customerId) THEN "Customer ID is required"
    ELSE ""

\* recordUsage's precondition checks, in order: the message of the error
\* thrown, "" if none
RecordUsageMessage(customerId, usageValue) ==
    IF disposed THEN "Strategy has been disposed and cannot record usage"
    ELSE IF Falsy(customerId) THEN "Customer ID is required"
    ELSE IF usageValue <= 0 THEN "Usage value must be greater than zero"
    ELSE ""

\* recordUsage(customerId, usageValue), up to its first await
RecordUsage(t, customerId, usageValue) ==
    /\ UNCHANGED otherVars
    /\ Fresh(t)
    /\ LET e == RecordUsageError(customerId, usageValue) IN
       IF e # ""
       THEN /\ task' = [task EXCEPT ![t] = [IdleTask EXCEPT !.op = "recordUsage",
                            !.pc = "rejected", !.err = e,
                            !.msg = RecordUsageMessage(customerId, usageValue),
                            !.customerId = customerId, !.usageValue = usageValue]]
            /\ UNCHANGED resolverCalls
       ELSE /\ task' = [task EXCEPT ![t] = [IdleTask EXCEPT !.op = "recordUsage",
                            !.pc = "resolving",
                            !.customerId = customerId, !.usageValue = usageValue]]
            /\ resolverCalls' = resolverCalls + 1
    /\ UNCHANGED <<pendingUsage, keyOrder, flushInterval, disposed, flushOnDispose,
                   submitted, timerClears, sinceAck, acked, failedPending>>

\* a recordUsage whose catch reports the resolver's error and returns
SwallowResolverError(tk) == [tk EXCEPT !.pc = "resolved"]

\* recordUsage's catch on an Error thrown by the resolver: throw it again
RethrowResolverError(tk) ==
    [tk EXCEPT !.pc = "rejected", !.err = "Resolver",
               !.rejection = RecordUsageCatch(tk.caught)]

\* getSubscriptionItemId throws: recordUsage's catch throws in its turn
ResolverFails(t, thrown) ==
    /\ UNCHANGED otherVars
    /\ task[t].op = "recordUsage" /\ task[t].pc = "resolving"
    /\ task' = [task EXCEPT ![t] =
                   RethrowResolverError([@ EXCEPT !.resolver = "threw",
                                                  !.caught = thrown])]
    /\ UNCHANGED <<pendingUsage, keyOrder, flushInterval, disposed, flushOnDispose,
                   resolverCalls, submitted, timerClears, sinceAck, acked,
                   failedPending>>

\* a record that counts every call as one unit
UsageEntryUnit(customerId, usageValue, t) ==
    [customerId |-> customerId, usageValue |-> 1, call |-> t]

\* the record recordUsage builds from its arguments
UsageEntry(customerId, usageValue, t) ==
    [customerId |-> customerId, usageValue |-> usageValue, call |-> t]

\* a recordUsage that sets a new array for the key on every call
PushedAlone(records, entry) == <<entry>>

\* usageRecords.push(entry)
Pushed(records, entry) == Append(records, entry)

\* a size trigger that flushes the oldest key of the Map
TriggerKeyOldest(key, order) == Head(order)

\* the key the size trigger hands to flushBatch: the one it pushed to
TriggerKey(key, order) == key

\* getSubscriptionItemId returns: push the record and, at the size trigger,
\* run flushBatch up to its createUsageRecord await
ResolverReturns(t) ==
    /\ UNCHANGED otherVars
    /\ task[t].op = "recordUsage" /\ task[t].pc = "resolving"
    /\ LET key == KeyOf(task[t].customerId)
           entry == UsageEntry(task[t].customerId, task[t].usageValue, t)
           records == Pushed(pendingUsage[key], entry)
           order == IF Has(key) THEN keyOrder ELSE Append(keyOrder, key)
           flushed == TriggerKey(key, order)
           toFlush == IF flushed = key THEN records ELSE pendingUsage[flushed]
       IN /\ keyOrder' = order
          /\ pendingUsage' = [pendingUsage EXCEPT ![key] = records]
          /\ sinceAck' = [sinceAck EXCEPT ![key] = Append(@, entry)]
          /\ IF ReachedMax(records) /\ ~NothingToFlush(toFlush)
             THEN /\ task' = [task EXCEPT ![t].pc = "flushing",
                                  ![t].resolver = "returned",
                                  ![t].req = UsageRecordParams(flushed, toFlush),
                                  ![t].snap = EntryCalls(toFlush),
                                  ![t].nflush = 1]
                  /\ submitted' = [submitted EXCEPT ![flushed] = @ + 1]
             ELSE /\ task' = [task EXCEPT ![t].pc = "resolved",
                                  ![t].resolver = "returned"]
                  /\ UNCHANGED submitted
    /\ UNCHANGED <<flushInterval, disposed, flushOnDispose, resolverCalls, timerClears,
                   acked, failedPending>>

\* the setInterval callback: flushAllBatches().catch(...)
TimerFires(t) ==
    /\ UNCHANGED otherVars
    /\ Fresh(t)
    /\ flushInterval
    /\ LET new == SweepRun([IdleTask EXCEPT !.op = "timer", !.keys = keyOrder],
                           keyOrder, pendingUsage)
       IN /\ task' = [task EXCEPT ![t] = new]
          /\ submitted' = [k \in Keys |-> submitted[k] + Issued(IdleTask, new, k)]
    /\ UNCHANGED <<pendingUsage, keyOrder, flushInterval, disposed, flushOnDispose,
                   resolverCalls, timerClears, sinceAck, acked, failedPending>>

\* a dispose that never takes its early return
NeverAlreadyDisposed == FALSE

\* dispose's early return: if (this.disposed) return
AlreadyDisposed == disposed

\* a dispose that calls clearInterval whatever flushInterval holds
AlwaysClearsInterval == TRUE

\* dispose's guard on the timer handle: if (this.flushInterval)
ClearsInterval == flushInterval

\* a dispose that flushes whatever the configuration says
AlwaysFlushesOnDispose == TRUE

\* dispose's guard on the final flush: if (this.flushOnDispose)
FlushesOnDispose == flushOnDispose

\* dispose(), up to its first await
Dispose(t) ==
    /\ UNCHANGED otherVars
    /\ Fresh(t)
    /\ IF AlreadyDisposed
       THEN /\ task' = [task EXCEPT ![t] = [IdleTask EXCEPT !.op = "dispose",
                                                            !.pc = "resolved"]]
            /\ UNCHANGED <<flushInterval, timerClears, disposed, submitted>>
       ELSE /\ flushInterval' = FALSE
            /\ timerClears' = IF ClearsInterval THEN timerClears + 1 ELSE timerClears
            /\ IF FlushesOnDispose
               THEN LET new == SweepRun([IdleTask EXCEPT !.op = "dispose",
                                                         !.keys = keyOrder],
                                        keyOrder, pendingUsage)
                    IN /\ task' = [task EXCEPT ![t] = new]
                       /\ submitted' = [k \in Keys |->
                                           submitted[k] + Issued(IdleTask, new, k)]
                       /\ UNCHANGED disposed
               ELSE /\ task' = [task EXCEPT ![t] = [IdleTask EXCEPT !.op = "dispose",
                                                                    !.pc = "resolved"]]
                    /\ disposed' = TRUE
                    /\ UNCHANGED submitted
    /\ UNCHANGED <<pendingUsage, keyOrder, flushOnDispose, resolverCalls, sinceAck,
                   acked, failedPending>>

\* a dispose that marks the strategy only after a flush without failures
DisposedOnlyIfFlushed(tk) == tk.failed = {}

\* dispose after its try/catch around flushAllBatches: this.disposed = true
DisposedAfterFlush(tk) == TRUE

\* flushAllBatches resumes after one key: the next iteration, or the end of
\* the loop, where the timer callback is over and dispose sets the flag
SweepProceeds(t) ==
    /\ UNCHANGED otherVars
    /\ task[t].op \in {"timer", "dispose"} /\ task[t].pc = "sweeping"
    /\ IF task[t].todo = <<>>
       THEN /\ task' = [task EXCEPT ![t].pc = "resolved"]
            /\ disposed' = IF task[t].op = "dispose"
                            THEN DisposedAfterFlush(task[t]) ELSE disposed
            /\ UNCHANGED submitted
       ELSE LET new == SweepRun(task[t], task[t].todo, pendingUsage)
            IN /\ task' = [task EXCEPT ![t] = new]
               /\ submitted' = [k \in Keys |-> submitted[k] + Issued(task[t], new, k)]
               /\ UNCHANGED disposed
    /\ UNCHANGED <<pendingUsage, keyOrder, flushInterval, flushOnDispose,
                   resolverCalls, timerClears, sinceAck, acked, failedPending>>

\* a flushBatch that forgets to clear the array
KeptOnSuccess(records) == records

\* what flushBatch leaves in the array of its key once createUsageRecord resolved
Cleared(records) == <<>>

\* createUsageRecord resolves: flushBatch clears the array and returns
BackendSucceeds(t) ==
    /\ UNCHANGED otherVars
    /\ task[t].pc = "flushing"
    /\ LET key == task[t].req.key IN
       /\ pendingUsage' = [pendingUsage EXCEPT ![key] = Cleared(@)]
       /\ sinceAck' = [sinceAck EXCEPT ![key] = <<>>]
       /\ acked' = [acked EXCEPT ![key] = @ + task[t].req.quantity]
       /\ failedPending' = [failedPending EXCEPT ![key] = FALSE]
       /\ task' = [task EXCEPT ![t] =
                      IF task[t].op = "recordUsage"
                      THEN [@ EXCEPT !.pc = "resolved", !.req = NoReq, !.snap = {}]
                      ELSE [@ EXCEPT !.pc = "sweeping", !.req = NoReq, !.snap = {},
                                     !.todo = Tail(@)]]
    /\ UNCHANGED <<keyOrder, flushInterval, disposed, flushOnDispose,
                   resolverCalls, submitted, timerClears>>

\* what a failed createUsageRecord leaves in the array of its key
Retained(records) == records

\* a flushAllBatches whose loop lets the error of one key end the sweep
AbortSweepOnError(tk, key) ==
    [tk EXCEPT !.pc = "sweeping", !.req = NoReq, !.snap = {}, !.todo = <<>>,
               !.failed = @ \cup {key}]

\* a flushAllBatches without the catch: the error of the key leaves the sweep
RethrowSweepError(tk, key) ==
    [tk EXCEPT !.pc = "rejected", !.err = "StripeApi", !.req = NoReq, !.snap = {},
               !.failed = @ \cup {key}]

\* flushAllBatches' catch: report the error of this key, go on with the next
ContinueSweepOnError(tk, key) ==
    [tk EXCEPT !.pc = "sweeping", !.req = NoReq, !.snap = {}, !.todo = Tail(@),
               !.failed = @ \cup {key}]

\* recordUsage's catch on the StripeApiError of its flushBatch: throw it again
RethrowFlushError(tk) ==
    [tk EXCEPT !.pc = "rejected", !.err = "StripeApi", !.req = NoReq, !.snap = {},
               !.rejection = RecordUsageCatch(tk.caught)]

\* createUsageRecord rejects: flushBatch throws StripeApiError; recordUsage
\* rethrows it, flushAllBatches logs it and goes on with the next key
BackendFails(t) ==
    /\ UNCHANGED otherVars
    /\ task[t].pc = "flushing"
    /\ LET key == task[t].req.key IN
       /\ pendingUsage' = [pendingUsage EXCEPT ![key] = Retained(@)]
       /\ failedPending' = [failedPending EXCEPT ![key] = TRUE]
       /\ task' = [task EXCEPT ![t] =
                      IF task[t].op = "recordUsage"
                      THEN RethrowFlushError([@ EXCEPT !.caught = FlushFailure(key)])
                      ELSE ContinueSweepOnError(@, key)]
    /\ UNCHANGED <<keyOrder, flushInterval, disposed, flushOnDispose,
                   resolverCalls, submitted, timerClears, sinceAck, acked>>

Next ==
    \/ \E t \in Calls, args \in RecordInputs : RecordUsage(t, args[1], args[2])
    \/ \E t \in Calls, thrown \in ResolverErrors : ResolverFails(t, thrown)
    \/ \E t \in Calls : ResolverReturns(t)
    \/ \E t \in Calls : TimerFires(t)
    \/ \E t \in Calls : Dispose(t)
    \/ \E t \in Calls : SweepProceeds(t)
    \/ \E t \in Calls : BackendSucceeds(t)
    \/ \E t \in Calls : BackendFails(t)

Spec == Init /\ [][Next]_vars

\* the strategy in front of a backend whose createUsageRecord always resolves
NextOk ==
    \/ \E t \in Calls, args \in RecordInputs : RecordUsage(t, args[1], args[2])
    \/ \E t \in Calls, thrown \in ResolverErrors : ResolverFails(t, thrown)
    \/ \E t \in Calls : ResolverReturns(t)
    \/ \E t \in Calls : TimerFires(t)
    \/ \E t \in Calls : Dispose(t)
    \/ \E t \in Calls : SweepProceeds(t)
    \/ \E t \in Calls : BackendSucceeds(t)

SpecOk == Init /\ [][NextOk]_vars

\* ---------------------------------------------- MeteringService actions
\* a MeteringService built on a strategy of any shape, no call made yet
ServiceInit ==
    /\ pendingUsage = [k \in Keys |-> <<>>]
    /\ keyOrder = <<>>
    /\ flushInterval = TRUE
    /\ disposed = FALSE
    /\ flushOnDispose = TRUE
    /\ task = [t \in Calls |-> IdleTask]
    /\ resolverCalls = 0
    /\ submitted = [k \in Keys |-> 0]
    /\ timerClears = 0
    /\ sinceAck = [k \in Keys |-> <<>>]
    /\ acked = [k \in Keys |-> 0]
    /\ failedPending = [k \in Keys |-> FALSE]
    /\ svcStrategy \in StrategyShapes
    /\ svcCall = [c \in ServiceCalls |-> IdleServiceCall]
    /\ strategyLog = <<>>
    /\ FactoryIdle
    /\ ImmediateIdle

\* recordApiCall(customerId, usageValue), up to its await of strategy.recordUsage
RecordApiCall(c, customerId, usageArg) ==
    /\ FreshService(c)
    /\ LET usageValue == UsageOrDefault(usageArg)
           msg == RecordApiCallError(customerId, usageValue)
       IN IF msg # <<>>
          THEN /\ svcCall' = [svcCall EXCEPT ![c] = [IdleServiceCall EXCEPT
                     !.op = "recordApiCall", !.pc = "rejected",
                     !.customerId = customerId, !.usageValue = usageValue,
                     !.error = [isError |-> TRUE, kind |-> "Error",
                                origin |-> "service", id |-> c, message |-> msg]]]
               /\ UNCHANGED strategyLog
          ELSE /\ svcCall' = [svcCall EXCEPT ![c] = [IdleServiceCall EXCEPT
                     !.op = "recordApiCall", !.pc = "awaiting",
                     !.customerId = customerId, !.usageValue = usageValue]]
               /\ strategyLog' = Append(strategyLog,
                     [method |-> "recordUsage", call |-> c,
                      customerId |-> customerId, usageValue |-> usageValue])
    /\ UNCHANGED <<svcStrategy, strategyVars, factoryVars, immediateVars>>

\* strategy.recordUsage resolves: so does recordApiCall
StrategyRecords(c) ==
    /\ svcCall[c].op = "recordApiCall" /\ svcCall[c].pc = "awaiting"
    /\ svcCall' = [svcCall EXCEPT ![c].pc = "resolved"]
    /\ UNCHANGED <<svcStrategy, strategyLog, strategyVars, factoryVars, immediateVars>>

\* strategy.recordUsage throws: recordApiCall's catch enhances and rethrows
StrategyThrows(c, value) ==
    /\ svcCall[c].op = "recordApiCall" /\ svcCall[c].pc = "awaiting"
    /\ svcCall' = [svcCall EXCEPT ![c].pc = "rejected", ![c].thrown = value,
                                  ![c].error = EnhanceError(value, c)]
    /\ UNCHANGED <<svcStrategy, strategyLog, strategyVars, factoryVars, immediateVars>>

\* MeteringService.dispose(), up to its await of strategy.dispose
ServiceDispose(c) ==
    /\ FreshService(c)
    /\ IF DisposeCallable(svcStrategy)
       THEN /\ svcCall' = [svcCall EXCEPT ![c] = [IdleServiceCall EXCEPT
                              !.op = "dispose", !.pc = "awaiting"]]
            /\ strategyLog' = Append(strategyLog,
                  [method |-> "dispose", call |-> c,
                   customerId |-> "", usageValue |-> 0])
       ELSE /\ svcCall' = [svcCall EXCEPT ![c] = [IdleServiceCall EXCEPT
                              !.op = "dispose", !.pc = "resolved"]]
            /\ UNCHANGED strategyLog
    /\ UNCHANGED <<svcStrategy, strategyVars, factoryVars, immediateVars>>

\* strategy.dispose resolves: so does MeteringService.dispose
StrategyDisposes(c) ==
    /\ svcCall[c].op = "dispose" /\ svcCall[c].pc = "awaiting"
    /\ svcCall' = [svcCall EXCEPT ![c].pc = "resolved"]
    /\ UNCHANGED <<svcStrategy, strategyLog, strategyVars, factoryVars, immediateVars>>

\* strategy.dispose throws: MeteringService.dispose rejects with that value
StrategyDisposeThrows(c, value) ==
    /\ svcCall[c].op = "dispose" /\ svcCall[c].pc = "awaiting"
    /\ svcCall' = [svcCall EXCEPT ![c].pc = "rejected", ![c].thrown = value,
                                  ![c].error = value]
    /\ UNCHANGED <<svcStrategy, strategyLog, strategyVars, factoryVars, immediateVars>>

ServiceNext ==
    \/ \E c \in ServiceCalls, args \in ServiceInputs : RecordApiCall(c, args[1], args[2])
    \/ \E c \in ServiceCalls : StrategyRecords(c)
    \/ \E c \in ServiceCalls : \E value \in ThrownValues(c) : StrategyThrows(c, value)
    \/ \E c \in ServiceCalls : ServiceDispose(c)
    \/ \E c \in ServiceCalls : StrategyDisposes(c)
    \/ \E c \in ServiceCalls : \E value \in ThrownValues(c) : StrategyDisposeThrows(c, value)

SpecService == ServiceInit /\ [][ServiceNext]_vars

\* ------------------------------------------------- flushBatch, called alone
FlushCalls == 1..MaxFlushCalls

\* the batches a key may hold when flushBatch is called: up to maxBatchSize
\* entries of the customers that resolve to the key
RECURSIVE BatchesOf(_, _)
BatchesOf(key, n) ==
    IF n = 0 THEN {<<>>}
    ELSE LET shorter == BatchesOf(key, n - 1)
             entries == {[customerId |-> args[1], usageValue |-> args[2], call |-> 0] :
                           args \in {a \in RecordInputs :
                                       /\ ~Falsy(a[1]) /\ a[2] > 0 /\ KeyOf(a[1]) = key}}
         IN shorter \cup {Append(b, e) : b \in {x \in shorter : Len(x) = n - 1},
                                         e \in entries}

\* the keys a Map may hold, in the order they were set
KeyOrders == {<<>>, <<"si_1">>, <<"si_2">>, <<NullKey>>, <<"si_1", "si_2">>,
              <<"si_1", NullKey>>, <<"si_2", NullKey>>, <<"si_1", "si_2", NullKey>>}

\* what createUsageRecord may reject with: an Error, an Error to which the
\* backend attached a code, a status or both, or a value that is no Error
BackendErrors ==
    {[isError |-> TRUE, message |-> "Stripe API error", code |-> "", statusCode |-> 0],
     [isError |-> TRUE, message |-> "Rate limited", code |-> "rate_limit",
      statusCode |-> 429],
     [isError |-> TRUE, message |-> "Card declined", code |-> "card_declined",
      statusCode |-> 0],
     [isError |-> FALSE, message |-> "String error", code |-> "", statusCode |-> 0]}

\* this.pendingUsage.get(key): <<>> when the key is absent, else <<array>>
MapGet(key) == IF Has(key) THEN <<pendingUsage[key]>> ELSE <<>>

\* a guard that only looks for the key: if (!usageRecords)
NoRecordsAbsentOnly(got) == got = <<>>

\* flushBatch's guard: if (!usageRecords || usageRecords.length === 0)
NoRecords(got) == got = <<>> \/ NothingToFlush(got[1])

\* a catch that throws the StripeApiError without the backend's details
FlushErrorNoDetails(key, thrown) ==
    [kind |-> "StripeApiError",
     message |-> <<"Failed to flush usage records for subscription item ", key, ": ",
                   thrown.message>>,
     stripeCode |-> "", statusCode |-> 0,
     cause |-> IF thrown.isError THEN thrown
               ELSE [isError |-> TRUE, message |-> thrown.message, code |-> "",
                     statusCode |-> 0]]

\* flushBatch's catch: the StripeApiError built from what createUsageRecord
\* rejected with; code and statusCode are copied only when both are set
FlushError(key, thrown) ==
    LET errorDetails == thrown.code # "" /\ thrown.statusCode # 0
    IN [kind |-> "StripeApiError",
        message |-> <<"Failed to flush usage records for subscription item ", key,
                      ": ", thrown.message>>,
        stripeCode |-> IF errorDetails THEN thrown.code ELSE "",
        statusCode |-> IF errorDetails THEN thrown.statusCode ELSE 0,
        cause |-> IF thrown.isError THEN thrown
                  ELSE [isError |-> TRUE, message |-> thrown.message, code |-> "",
                        statusCode |-> 0]]

\* a strategy whose Map holds any batches, no call in progress
FlushInit ==
    /\ keyOrder \in KeyOrders
    /\ pendingUsage \in [Keys -> BatchesOf("si_1", MaxBatchSize)
                                 \cup BatchesOf("si_2", MaxBatchSize)
                                 \cup BatchesOf(NullKey, MaxBatchSize)]
    /\ \A k \in Keys : /\ pendingUsage[k] \in BatchesOf(k, MaxBatchSize)
                       /\ ~Has(k) => pendingUsage[k] = <<>>
    /\ sinceAck = pendingUsage
    /\ flushInterval = TRUE
    /\ disposed = FALSE
    /\ flushOnDispose = TRUE
    /\ task = [t \in Calls |-> IdleTask]
    /\ resolverCalls = 0
    /\ submitted = [k \in Keys |-> 0]
    /\ timerClears = 0
    /\ acked = [k \in Keys |-> 0]
    /\ failedPending = [k \in Keys |-> FALSE]
    /\ ServiceIdle /\ FactoryIdle /\ ImmediateIdle

\* flushBatch(key), up to its await of createUsageRecord
FlushBatch(t, key) ==
    /\ UNCHANGED otherVars
    /\ t \in FlushCalls /\ Fresh(t)
    /\ IF NoRecords(MapGet(key))
       THEN /\ task' = [task EXCEPT ![t] = [IdleTask EXCEPT !.op = "flushBatch",
                            !.pc = "resolved", !.keys = <<key>>]]
            /\ UNCHANGED submitted
       ELSE /\ task' = [task EXCEPT ![t] = [IdleTask EXCEPT !.op = "flushBatch",
                            !.pc = "flushing", !.keys = <<key>>,
                            !.req = UsageRecordParams(key, pendingUsage[key]),
                            !.snap = EntryCalls(pendingUsage[key]),
                            !.nflush = 1]]
            /\ submitted' = [submitted EXCEPT ![key] = @ + 1]
    /\ UNCHANGED <<pendingUsage, keyOrder, flushInterval, disposed, flushOnDispose,
                   resolverCalls, timerClears, sinceAck, acked, failedPending>>

\* createUsageRecord resolves: flushBatch clears the array and returns
FlushBatchSucceeds(t) ==
    /\ UNCHANGED otherVars
    /\ task[t].op = "flushBatch" /\ task[t].pc = "flushing"
    /\ LET key == task[t].req.key IN
       /\ pendingUsage' = [pendingUsage EXCEPT ![key] = Cleared(@)]
       /\ sinceAck' = [sinceAck EXCEPT ![key] = <<>>]
       /\ acked' = [acked EXCEPT ![key] = @ + task[t].req.quantity]
       /\ failedPending' = [failedPending EXCEPT ![key] = FALSE]
       /\ task' = [task EXCEPT ![t].pc = "resolved", ![t].req = NoReq, ![t].snap = {}]
    /\ UNCHANGED <<keyOrder, flushInterval, disposed, flushOnDispose,
                   resolverCalls, submitted, timerClears>>

\* createUsageRecord rejects: flushBatch throws a StripeApiError
FlushBatchFails(t, thrown) ==
    /\ UNCHANGED otherVars
    /\ task[t].op = "flushBatch" /\ task[t].pc = "flushing"
    /\ LET key == task[t].req.key IN
       /\ pendingUsage' = [pendingUsage EXCEPT ![key] = Retained(@)]
       /\ failedPending' = [failedPending EXCEPT ![key] = TRUE]
       /\ task' = [task EXCEPT ![t].pc = "rejected", ![t].err = "StripeApi",
                               ![t].req = NoReq, ![t].snap = {},
                               ![t].error = FlushError(key, thrown),
                               ![t].thrown = thrown]
    /\ UNCHANGED <<keyOrder, flushInterval, disposed, flushOnDispose,
                   resolverCalls, submitted, timerClears, sinceAck, acked>>

FlushNext ==
    \/ \E t \in FlushCalls, key \in Keys : FlushBatch(t, key)
    \/ \E t \in FlushCalls : FlushBatchSucceeds(t)
    \/ \E t \in FlushCalls, thrown \in BackendErrors : FlushBatchFails(t, thrown)

SpecFlush == FlushInit /\ [][FlushNext]_vars

\* ------------------------------ recordUsage on a strategy holding batches
RecordCalls == 1..MaxRecordCalls

\* the arguments of these calls: one customer per key, and an invalid call
StoredRecordInputs == {<<"cus_a", 1>>, <<"cus_b", 1>>, <<"cus_missing", 1>>,
                       <<"", 1>>}

RecordNext ==
    \/ \E t \in RecordCalls, args \in StoredRecordInputs :
           RecordUsage(t, args[1], args[2])
    \/ \E t \in RecordCalls, thrown \in ResolverErrors : ResolverFails(t, thrown)
    \/ \E t \in RecordCalls : ResolverReturns(t)
    \/ \E t \in RecordCalls : BackendSucceeds(t)
    \/ \E t \in RecordCalls : BackendFails(t)

SpecRecord == FlushInit /\ [][RecordNext]_vars

\* ----------------------- the interval timer on a strategy holding batches
\* the callbacks of the interval timer
Sweeps == 1..MaxSweeps

\* batches as in FlushInit, under the two subscription items and of entries
\* of usageValue 1: a sweep treats every key alike and looks at the length
\* and the sum of a batch only
SweepInit ==
    /\ FlushInit
    /\ ~Has(NullKey)
    /\ \A k \in Keys : \A i \in 1..Len(pendingUsage[k]) :
          pendingUsage[k][i].usageValue = 1

\* the backend may be down while the first callbacks run and is up again
\* when the last callback of the run starts
BackendRecovered(t) == t = MaxSweeps

\* createUsageRecord rejects while the backend is down
BackendFailsWhileDown(t) == ~BackendRecovered(t) /\ BackendFails(t)

SweepNext ==
    \/ \E t \in Sweeps : TimerFires(t)
    \/ \E t \in Sweeps : SweepProceeds(t)
    \/ \E t \in Sweeps : BackendSucceeds(t)
    \/ \E t \in Sweeps : BackendFailsWhileDown(t)

\* setInterval keeps calling back, the event loop resumes every
\* flushAllBatches, and the backend answers every createUsageRecord
SweepFairness ==
    /\ WF_vars(\E t \in Sweeps : TimerFires(t))
    /\ \A t \in Sweeps : WF_vars(SweepProceeds(t))
    /\ \A t \in Sweeps : WF_vars(BackendSucceeds(t) \/ BackendFailsWhileDown(t))

SpecSweep == SweepInit /\ [][SweepNext]_vars /\ SweepFairness

\* --------------------------------------- MeteringServiceFactory actions
\* nothing constructed yet, no call made on any component
IdleInit == BatchedIdle /\ ServiceIdle /\ FactoryIdle /\ ImmediateIdle

\* MeteringServiceFactory.createService(config)
CreateService(c, config) ==
    /\ FreshFactory(c)
    /\ LET msg == ConfigError(config)
           class == StrategyFor(config)
       IN IF msg # <<>>
          THEN /\ factoryCall' = [factoryCall EXCEPT ![c] =
                     [done |-> TRUE, config |-> config, result |-> "threw",
                      strategy |-> "",
                      error |-> [kind |-> "ConfigurationError", message |-> msg]]]
               /\ UNCHANGED constructed
          ELSE IF class = ""
          THEN /\ factoryCall' = [factoryCall EXCEPT ![c] =
                     [done |-> TRUE, config |-> config, result |-> "threw",
                      strategy |-> "",
                      error |-> [kind |-> "ConfigurationError",
                                 message |-> <<"Unknown strategy type: ",
                                               config.strategyType>>]]]
               /\ UNCHANGED constructed
          ELSE /\ factoryCall' = [factoryCall EXCEPT ![c] =
                     [done |-> TRUE, config |-> config, result |-> "MeteringService",
                      strategy |-> class,
                      error |-> [kind |-> "", message |-> <<>>]]]
               /\ constructed' = Append(constructed,
                                        [class |-> class, call |-> c, config |-> config])
    /\ UNCHANGED <<strategyVars, serviceVars, immediateVars>>

FactoryNext == \E c \in FactoryCalls, config \in Configs : CreateService(c, config)

SpecFactory == IdleInit /\ [][FactoryNext]_vars

\* ---------------------------------- ImmediateMeterEventStrategy actions
\* recordUsage(customerId, usageValue), up to its await of meterEvents.create
ImmediateRecordUsage(t, customerId, usageValue) ==
    /\ FreshImmediate(t)
    /\ LET e == ImmediateRecordUsageError(customerId, usageValue)
       IN IF e[1] # ""
          THEN /\ imCall' = [imCall EXCEPT ![t] = [IdleImmediateCall EXCEPT
                     !.op = "recordUsage", !.pc = "rejected",
                     !.customerId = customerId, !.usageValue = usageValue,
                     !.err = e[1], !.message = e[2]]]
               /\ UNCHANGED meterEvents
          ELSE /\ imCall' = [imCall EXCEPT ![t] = [IdleImmediateCall EXCEPT
                     !.op = "recordUsage", !.pc = "awaiting",
                     !.customerId = customerId, !.usageValue = usageValue,
                     !.event = MeterEventParams(customerId, usageValue)]]
               /\ meterEvents' = Append(meterEvents,
                     [call |-> t, params |-> MeterEventParams(customerId, usageValue)])
    /\ UNCHANGED <<imDisposed, strategyVars, serviceVars, factoryVars>>

\* meterEvents.create resolves: so does recordUsage
MeterEventSucceeds(t) ==
    /\ imCall[t].op = "recordUsage" /\ imCall[t].pc = "awaiting"
    /\ imCall' = [imCall EXCEPT ![t].pc = "resolved"]
    /\ UNCHANGED <<imDisposed, meterEvents, strategyVars, serviceVars, factoryVars>>

\* meterEvents.create rejects: recordUsage's catch throws a StripeApiError
MeterEventFails(t) ==
    /\ imCall[t].op = "recordUsage" /\ imCall[t].pc = "awaiting"
    /\ imCall' = [imCall EXCEPT ![t].pc = "rejected", ![t].err = "StripeApiError",
                                ![t].message = "Failed to record meter event"]
    /\ UNCHANGED <<imDisposed, meterEvents, strategyVars, serviceVars, factoryVars>>

\* dispose(): this.disposed = true, nothing awaited
ImmediateDispose(t) ==
    /\ FreshImmediate(t)
    /\ imDisposed' = TRUE
    /\ imCall' = [imCall EXCEPT ![t] = [IdleImmediateCall EXCEPT
                     !.op = "dispose", !.pc = "resolved"]]
    /\ UNCHANGED <<meterEvents, strategyVars, serviceVars, factoryVars>>

ImmediateNext ==
    \/ \E t \in ImmediateCalls, args \in RecordInputs :
           ImmediateRecordUsage(t, args[1], args[2])
    \/ \E t \in ImmediateCalls : MeterEventSucceeds(t)
    \/ \E t \in ImmediateCalls : MeterEventFails(t)
    \/ \E t \in ImmediateCalls : ImmediateDispose(t)

SpecImmediate == IdleInit /\ [][ImmediateNext]_vars

\* ------------------------------------------------------------ typing
TypeOK ==
    /\ disposed \in BOOLEAN /\ flushInterval \in BOOLEAN
    /\ \A k \in Keys : Len(pendingUsage[k]) <= MaxCalls
    /\ \A t \in Calls : task[t].pc \in {"idle", "resolving", "flushing", "sweeping",
                                        "resolved", "rejected"}

\* ------------------------------------------------------- claim helpers
InFlight(t, k) == task[t].pc = "flushing" /\ task[t].req.key = k
FlushInFlight(k) == \E t \in Calls : InFlight(t, k)
Returned(t) == task[t].pc \in {"resolved", "rejected"}
Starts(t, op) == task[t].op = "none" /\ task'[t].op = op
\* task t issues createUsageRecord in this step
BeginsFlush(t) == task[t].pc # "flushing" /\ task'[t].pc = "flushing"
\* the createUsageRecord of task t is answered in this step, with success
Acknowledged(t) == /\ task[t].pc = "flushing" /\ task'[t].pc # "flushing"
                   /\ task'[t].err = task[t].err /\ task'[t].failed = task[t].failed
\* the createUsageRecord of task t is answered in this step, with a failure
Refused(t) == /\ task[t].pc = "flushing" /\ task'[t].pc # "flushing"
              /\ ~(task'[t].err = task[t].err /\ task'[t].failed = task[t].failed)
IsSweep(t) == task[t].op \in {"timer", "dispose"}
StoreUnchanged == pendingUsage' = pendingUsage /\ keyOrder' = keyOrder
NoBackendCall == submitted' = submitted
Range(seq) == {seq[i] : i \in 1..Len(seq)}
\* a call that has returned never runs again
ReturnedIsFinal == \A t \in Calls : Returned(t) => task'[t] = task[t]

\* ---------------------------------------------------------------- C1
\* C1: for every subscription-item key at most one createUsageRecord call of
\* that key is awaiting its result at any time.
C1_AtMostOneFlushInFlight ==
    \A k \in Keys : Cardinality({t \in Calls : InFlight(t, k)}) <= 1

\* ---------------------------------------------------------------- C2
\* C2: when the flush of task t is acknowledged, every entry of its key that
\* was pushed after the flush computed its aggregate is still in the batch.
C2_LateEntryKept ==
    [][\A t \in Calls : Acknowledged(t) =>
          LET k == task[t].req.key IN
          \A i \in 1..Len(pendingUsage[k]) :
             pendingUsage[k][i].call \notin task[t].snap
                => pendingUsage[k][i] \in Range(pendingUsage'[k])]_vars

\* ---------------------------------------------------------------- C3
\* C3: in a sweep, a backend failure on one key clears nothing and the sweep
\* goes on with its remaining keys; a remaining key with pending entries is
\* submitted when its turn comes, whatever failed before it, and cleared when
\* the backend acknowledges it; a sweep that is over has attempted every key
\* of its snapshot once.
C3_BatchIsolation ==
    [][/\ \A t \in Calls : (IsSweep(t) /\ Refused(t)) =>
             /\ StoreUnchanged
             /\ task'[t].pc = "sweeping"
             /\ task'[t].todo = Tail(task[t].todo)
       /\ \A t \in Calls :
             (IsSweep(t) /\ task[t].pc = "sweeping" /\ task[t].todo # <<>>
                /\ task'[t] # task[t] /\ pendingUsage[Head(task[t].todo)] # <<>>) =>
                /\ task'[t].pc = "flushing"
                /\ task'[t].req.key = Head(task[t].todo)
       /\ \A t \in Calls : (IsSweep(t) /\ Acknowledged(t)) =>
             pendingUsage'[task[t].req.key] = <<>>
       /\ \A t \in Calls : (task'[t].op \in {"timer", "dispose"}
                              /\ task'[t].pc = "resolved") =>
             task'[t].attempted = task'[t].keys]_vars

\* a sweep over si_1 then si_2 is over: si_1 failed and is still pending,
\* si_2 was submitted after that failure and is cleared
C3_Witness ==
    \E t \in Calls :
       /\ IsSweep(t) /\ task[t].pc = "resolved"
       /\ task[t].keys = <<"si_1", "si_2">>
       /\ task[t].failed = {"si_1"} /\ task[t].nflush = 2
       /\ pendingUsage["si_1"] # <<>> /\ pendingUsage["si_2"] = <<>>
       /\ acked["si_2"] > 0

\* ---------------------------------------------------------------- C4
\* C4: a recordUsage call made once the strategy is Disposed is rejected with
\* the lifecycle error, whatever its arguments, without calling the resolver,
\* changing the store or calling the backend, and it stays rejected.
C4_PostDisposal ==
    [][/\ \A t \in Calls : (disposed /\ Starts(t, "recordUsage")) =>
             /\ task'[t].pc = "rejected" /\ task'[t].err = "Lifecycle"
             /\ resolverCalls' = resolverCalls
             /\ StoreUnchanged /\ NoBackendCall
       /\ ReturnedIsFinal]_vars

\* a valid recordUsage was rejected after disposal while usage was pending
C4_Witness ==
    /\ disposed
    /\ \E k \in Keys : pendingUsage[k] # <<>>
    /\ \E t \in Calls : /\ task[t].op = "recordUsage" /\ task[t].err = "Lifecycle"
                        /\ task[t].customerId = "cus_a" /\ task[t].usageValue = 1

\* ---------------------------------------------------------------- C5
\* C5: no dispose call is ever rejected, and a dispose call that has returned
\* has left the strategy Disposed, whatever the backend answered.
C5_DisposeNeverRejects ==
    \A t \in Calls : task[t].op = "dispose" =>
       /\ task[t].pc # "rejected"
       /\ task[t].err = ""
       /\ task[t].pc = "resolved" => disposed

\* a dispose whose disposal flush failed for every key has resolved
C5_Witness ==
    \E t \in Calls : /\ task[t].op = "dispose" /\ task[t].pc = "resolved"
                     /\ task[t].failed = {"si_1", "si_2"}
                     /\ disposed

\* ---------------------------------------------------------------- C6
\* C6: a dispose call made once the strategy is Disposed returns at once and
\* changes nothing: no flush is attempted, no backend call is made, the timer
\* handle is not touched, the strategy stays Disposed.
C6_DisposeIdempotent ==
    [][\A t \in Calls : (disposed /\ Starts(t, "dispose")) =>
          /\ task'[t].pc = "resolved"
          /\ task'[t].attempted = <<>> /\ task'[t].nflush = 0
          /\ NoBackendCall /\ StoreUnchanged
          /\ timerClears' = timerClears /\ flushInterval' = flushInterval
          /\ disposed']_vars

\* two dispose calls have returned while usage was still pending
C6_Witness ==
    /\ disposed /\ flushOnDispose
    /\ \E k \in Keys : pendingUsage[k] # <<>>
    /\ \E t, u \in Calls : /\ t < u
                           /\ task[t].op = "dispose" /\ task[t].pc = "resolved"
                           /\ task[u].op = "dispose" /\ task[u].pc = "resolved"
                           /\ task[t].attempted # <<>> /\ task[u].attempted = <<>>

\* ---------------------------------------------------------------- C7
\* C7: when recordUsage pushes its entry, it issues one createUsageRecord for
\* the resolved key, carrying the sum of the batch, if the batch length is now
\* maxBatchSize, and returns without any flush if the length is below it; it
\* returns only once that call is answered and never flushes twice.
C7_ThresholdTrigger ==
    [][/\ \A t \in Calls :
             (task[t].op = "recordUsage" /\ task[t].pc = "resolving"
                /\ task'[t].pc # "resolving" /\ task'[t].err = "") =>
             LET k == KeyOf(task[t].customerId) IN
             /\ Len(pendingUsage'[k]) = MaxBatchSize =>
                   /\ task'[t].pc = "flushing" /\ task'[t].nflush = 1
                   /\ task'[t].req = [key |-> k, action |-> INCREMENT,
                                      quantity |-> SumUsage(pendingUsage'[k])]
                   /\ submitted' = [submitted EXCEPT ![k] = @ + 1]
             /\ Len(pendingUsage'[k]) < MaxBatchSize =>
                   /\ task'[t].pc = "resolved" /\ task'[t].nflush = 0
                   /\ NoBackendCall
       /\ \A t \in Calls : task[t].op = "recordUsage" =>
             /\ task'[t].nflush <= 1
             /\ BeginsFlush(t) => task[t].pc = "resolving"
       /\ ReturnedIsFinal]_vars

\* the push of the second entry brought the batch to maxBatchSize and the
\* call is awaiting the flush of both entries
C7_Witness ==
    \E t \in Calls :
       /\ task[t].op = "recordUsage" /\ task[t].pc = "flushing"
       /\ Len(pendingUsage[task[t].req.key]) = MaxBatchSize
       /\ task[t].req.quantity = SumUsage(pendingUsage[task[t].req.key])
       /\ task[t].req.quantity > task[t].usageValue
       /\ \E u \in Calls : u # t /\ task[u].op = "recordUsage"
                           /\ task[u].pc = "resolved" /\ task[u].nflush = 0

\* ---------------------------------------------------------------- C8
\* C8 (as stated): every batch has length at most maxBatchSize.
C8_BatchWithinMax ==
    \A k \in Keys : Len(pendingUsage[k]) <= MaxBatchSize

\* C8 (amended): a batch has length below maxBatchSize unless a flush of its
\* key is in flight or a flush of its key has failed and none has succeeded
\* since.
C8_BelowMaxUnlessFlushing ==
    \A k \in Keys :
       (~FlushInFlight(k) /\ ~failedPending[k]) => Len(pendingUsage[k]) < MaxBatchSize

\* a size-triggered flush has succeeded and the key is collecting again
C8_Witness ==
    \E k \in Keys :
       /\ ~FlushInFlight(k) /\ ~failedPending[k]
       /\ acked[k] > 0 /\ pendingUsage[k] # <<>>
       /\ \E t \in Calls : /\ task[t].op = "recordUsage" /\ task[t].pc = "resolved"
                           /\ task[t].nflush = 1 /\ KeyOf(task[t].customerId) = k

\* ---------------------------------------------------------------- C9
\* C9: a flush of a key whose batch is non-empty issues exactly one
\* createUsageRecord for that key, with action increment and the sum of the
\* entries pushed to the key since its last acknowledged flush; a flush is
\* issued only for a non-empty batch, and its acknowledgment leaves the batch
\* empty.
C9_FlushSubmitsSum ==
    [][/\ \A t \in Calls : BeginsFlush(t) =>
             LET k == task'[t].req.key IN
             /\ k \in Keys /\ pendingUsage'[k] # <<>>
             /\ task'[t].req.action = INCREMENT
             /\ task'[t].req.quantity = SumUsage(sinceAck'[k])
             /\ submitted' = [submitted EXCEPT ![k] = @ + 1]
       /\ \A t \in Calls :
             (IsSweep(t) /\ task[t].pc = "sweeping" /\ task[t].todo # <<>>
                /\ task'[t] # task[t]) =>
                (BeginsFlush(t) <=> pendingUsage[Head(task[t].todo)] # <<>>)
       /\ (\A t \in Calls : ~BeginsFlush(t)) => NoBackendCall
       /\ \A t \in Calls : Acknowledged(t) =>
             /\ pendingUsage'[task[t].req.key] = <<>>
             /\ acked'[task[t].req.key] = acked[task[t].req.key] + task[t].req.quantity]_vars

\* one flush reported the two entries 1 and 2 of si_1 and left the batch empty
C9_Witness ==
    /\ submitted["si_1"] = 1 /\ acked["si_1"] = 3
    /\ pendingUsage["si_1"] = <<>>
    /\ \A t \in Calls : task[t].pc # "flushing"

\* --------------------------------------------------------------- C10
\* C10: on a strategy that is not Disposed, recordUsage with an empty or
\* missing customerId or with usageValue <= 0 is rejected with the
\* invalid-input error without calling the resolver, changing the store or
\* calling the backend, and it stays rejected.
C10_RejectionLaw ==
    [][/\ \A t \in Calls :
             (~disposed /\ Starts(t, "recordUsage")
                /\ (Falsy(task'[t].customerId) \/ task'[t].usageValue <= 0)) =>
             /\ task'[t].pc = "rejected" /\ task'[t].err = "InvalidInput"
             /\ resolverCalls' = resolverCalls
             /\ StoreUnchanged /\ NoBackendCall
       /\ \A t \in Calls : task[t].err = "InvalidInput" => task'[t] = task[t]]_vars

\* recordUsage('', 1) and recordUsage('cus_a', 0) were both rejected on an
\* active strategy that holds pending usage
C10_Witness ==
    /\ ~disposed
    /\ \E k \in Keys : pendingUsage[k] # <<>>
    /\ \E t, u \in Calls :
          /\ task[t].err = "InvalidInput" /\ task[t].customerId = ""
          /\ task[t].usageValue = 1
          /\ task[u].err = "InvalidInput" /\ task[u].customerId = "cus_a"
          /\ task[u].usageValue = 0

\* --------------------------------------------------------------- C11
\* C11: when the resolver throws, recordUsage is rejected with that failure
\* and nothing else changes: no entry is pushed, no key is created, no
\* createUsageRecord is issued.
C11_ResolverFailure ==
    [][\A t \in Calls :
          (task[t].resolver = "" /\ task'[t].resolver = "threw") =>
          /\ task'[t].pc = "rejected" /\ task'[t].err = "Resolver"
          /\ StoreUnchanged /\ NoBackendCall
          /\ sinceAck' = sinceAck]_vars

\* the resolver failed for a call while another customer's usage was pending
C11_Witness ==
    /\ \E t \in Calls : task[t].resolver = "threw" /\ task[t].pc = "rejected"
                        /\ task[t].customerId = "cus_a"
    /\ pendingUsage["si_1"] = <<>> /\ ~Has("si_1")
    /\ pendingUsage["si_2"] # <<>>

C13_BackendErrorPropagation ==
    [][/\ \A t \in Calls : (task[t].op = "recordUsage" /\ Refused(t)) =>
             task'[t].pc = "rejected" /\ task'[t].err = "StripeApi"
       /\ \A t \in Calls : (IsSweep(t) /\ task[t].pc = "flushing"
                              /\ task'[t].pc # "flushing"
                              /\ pendingUsage' = pendingUsage /\ sinceAck' = sinceAck
                              /\ acked' = acked) =>
             /\ task'[t].pc = "sweeping" /\ task'[t].err = ""
             /\ task[t].req.key \in task'[t].failed
       /\ \A t \in Calls : task'[t].op \in {"timer", "dispose"} =>
             task'[t].pc # "rejected" /\ task'[t].err = ""]_vars

\* a recordUsage was rejected by its own flush, and a sweep that met a
\* backend failure has returned normally
C13_Witness ==
    /\ \E t \in Calls : task[t].op = "recordUsage" /\ task[t].err = "StripeApi"
                        /\ task[t].nflush = 1
    /\ \E u \in Calls : IsSweep(u) /\ task[u].pc = "resolved" /\ task[u].failed # {}

\* --------------------------------------------------------------- C14
\* C14: with flushOnDispose and a backend that always succeeds, at the moment
\* dispose marks the strategy Disposed and resolves, no batch of the store
\* holds a pending entry.
C14_DisposeReportsAll ==
    [][(flushOnDispose /\ ~disposed /\ disposed') =>
          \A k \in Keys : pendingUsage'[k] = <<>>]_vars

\* --------------------------------------------------------------- C15
\* C15: with flushOnDispose false, a dispose call on a strategy that is not
\* Disposed returns at once without any flush: no createUsageRecord, every
\* batch unchanged, the timer released, the strategy Disposed.
C15_NoFlushOnDispose ==
    [][\A t \in Calls : (~flushOnDispose /\ ~disposed /\ Starts(t, "dispose")) =>
          /\ task'[t].pc = "resolved"
          /\ task'[t].attempted = <<>> /\ task'[t].nflush = 0
          /\ NoBackendCall /\ StoreUnchanged /\ sinceAck' = sinceAck
          /\ ~flushInterval'
          /\ timerClears' = timerClears + 1
          /\ disposed']_vars

\* dispose returned without a flush and left two batches pending
C15_Witness ==
    /\ ~flushOnDispose /\ disposed /\ ~flushInterval /\ timerClears = 1
    /\ pendingUsage["si_1"] # <<>> /\ pendingUsage["si_2"] # <<>>
    /\ \A k \in Keys : submitted[k] = 0
    /\ \E t \in Calls : task[t].op = "dispose" /\ task[t].pc = "resolved"

\* --------------------------------------------------------------- C16
\* C16: the one timer handle is held from construction until a dispose call
\* releases it; clearInterval is called at most once, by a dispose call, and
\* the handle never comes back; a timer-triggered sweep starts only while the
\* handle is held, and a Disposed strategy holds none.
C16_OneTimerReleasedOnce ==
    /\ flushInterval = TRUE /\ timerClears = 0
    /\ [][/\ timerClears' <= 1
          /\ flushInterval' <=> timerClears' = 0
          /\ disposed' => ~flushInterval'
          /\ ~flushInterval => ~flushInterval'
          /\ timerClears' # timerClears => \E t \in Calls : Starts(t, "dispose")
          /\ (\E t \in Calls : Starts(t, "dispose") /\ ~disposed) => ~flushInterval'
          /\ \A t \in Calls : Starts(t, "timer") => flushInterval]_vars

\* the timer fired, then two dispose calls overlapped, both still awaiting
\* their flush, and the handle was released once
C16_Witness ==
    /\ ~flushInterval /\ timerClears = 1 /\ ~disposed
    /\ \E t, u, w \in Calls :
          /\ t < u /\ u < w
          /\ task[t].op = "timer"
          /\ task[u].op = "dispose" /\ task[u].pc # "resolved"
          /\ task[w].op = "dispose" /\ task[w].pc # "resolved"

\* --------------------------------------------------------------- C17
\* C17: the strategy starts Active; the disposed flag changes only from
\* Active to Disposed, only in a step where a dispose call returns, and once
\* set it stays set.
C17_LifecycleMonotonic ==
    /\ ~disposed
    /\ [][/\ disposed => disposed'
          /\ disposed' # disposed =>
                \E t \in Calls : /\ task'[t].op = "dispose"
                                 /\ task[t].pc # "resolved"
                                 /\ task'[t].pc = "resolved"]_vars

\* the strategy was disposed after a timer sweep and has since refused a call
C17_Witness ==
    /\ disposed
    /\ \E t \in Calls : task[t].op = "timer" /\ task[t].pc = "resolved"
    /\ \E t \in Calls : task[t].op = "recordUsage" /\ task[t].err = "Lifecycle"

\* ------------------------------------------------ MeteringService claims
\* how many times call c of the service invoked the strategy's method
Delegations(method, c) ==
    Cardinality({i \in DOMAIN strategyLog :
                    strategyLog[i].method = method /\ strategyLog[i].call = c})

StrategyFailed(c) == svcCall[c].op = "recordApiCall" /\ svcCall[c].thrown # NoError

\* C18: recordApiCall calls the strategy's recordUsage exactly once, with its
\* own arguments, if and only if customerId is non-empty and usageValue > 0;
\* otherwise it rejects and the strategy is never called.
C18_DelegatesIffValid ==
    \A c \in ServiceCalls : svcCall[c].op = "recordApiCall" =>
        LET valid == ~Falsy(svcCall[c].customerId) /\ svcCall[c].usageValue > 0
            n == Delegations("recordUsage", c)
        IN /\ n <= 1
           /\ n = 1 <=> valid
           /\ valid => \E i \in DOMAIN strategyLog :
                          strategyLog[i] = [method |-> "recordUsage", call |-> c,
                                            customerId |-> svcCall[c].customerId,
                                            usageValue |-> svcCall[c].usageValue]
           /\ ~valid => /\ svcCall[c].pc = "rejected"
                        /\ svcCall[c].error.isError
                        /\ Delegations("dispose", c) = 0

C18_Witness ==
    \E c, d \in ServiceCalls :
        /\ svcCall[c].op = "recordApiCall" /\ svcCall[c].usageValue = 0
        /\ svcCall[c].pc = "rejected" /\ Delegations("recordUsage", c) = 0
        /\ svcCall[d].op = "recordApiCall" /\ svcCall[d].pc = "resolved"
        /\ Delegations("recordUsage", d) = 1

\* C19: when the strategy's recordUsage fails, recordApiCall rejects with an
\* error whose message is the marker followed by the original message; a
\* thrown Error stays the same value of the same kind, and any other thrown
\* value is replaced by a new Error saying 'Unknown error occurred'.
C19_EnhancedError ==
    \A c \in ServiceCalls : StrategyFailed(c) =>
        LET thrown == svcCall[c].thrown
            error == svcCall[c].error
        IN /\ svcCall[c].pc = "rejected"
           /\ error.isError
           /\ thrown.isError =>
                 /\ error.message = <<FailedMarker>> \o thrown.message
                 /\ error.kind = thrown.kind
                 /\ error.origin = thrown.origin /\ error.id = thrown.id
           /\ ~thrown.isError =>
                 /\ error.message = <<FailedMarker, "Unknown error occurred">>
                 /\ error.kind = "Error"
                 /\ error.origin = "service"

C19_Witness ==
    \E c, d \in ServiceCalls :
        /\ StrategyFailed(c) /\ svcCall[c].thrown.kind = "StripeApiError"
        /\ svcCall[c].error.kind = "StripeApiError"
        /\ svcCall[c].error.message[1] = FailedMarker
        /\ StrategyFailed(d) /\ ~svcCall[d].thrown.isError
        /\ svcCall[d].pc = "rejected"

\* C20: MeteringService.dispose calls the strategy's dispose exactly once if
\* and only if the strategy has a dispose that is a function; when dispose is
\* absent or not a function it resolves without calling anything.
C20_DisposeIffCallable ==
    \A c \in ServiceCalls : svcCall[c].op = "dispose" =>
        LET n == Delegations("dispose", c)
        IN /\ n <= 1
           /\ n = 1 <=> svcStrategy.dispose = "function"
           /\ Delegations("recordUsage", c) = 0
           /\ svcStrategy.dispose # "function" =>
                 /\ svcCall[c].pc = "resolved"
                 /\ svcCall[c].error = NoError

C20_Witness ==
    \E c \in ServiceCalls :
        /\ svcCall[c].op = "dispose" /\ svcCall[c].pc = "resolved"
        /\ svcStrategy.dispose = "function"
        /\ Delegations("dispose", c) = 1


\* ----------------------------------------- MeteringServiceFactory claims
\* the strategy objects call c of createService constructed
Built(c) == {i \in DOMAIN constructed : constructed[i].call = c}

\* C21: createService builds the service on an immediate strategy for tag
\* 'immediate' and on a batched strategy for tag 'batched', constructing
\* exactly that one strategy from the configuration; with no configuration,
\* no API key or any other tag it throws a ConfigurationError and constructs
\* no strategy.
C21_FactorySelection ==
    \A c \in FactoryCalls : factoryCall[c].done =>
        LET config == factoryCall[c].config
            usable == config.given /\ ~Falsy(config.stripeApiKey)
            Selects(tag, class) ==
                (usable /\ config.strategyType = tag) =>
                    /\ factoryCall[c].result = "MeteringService"
                    /\ factoryCall[c].strategy = class
                    /\ Cardinality(Built(c)) = 1
                    /\ \A i \in Built(c) : /\ constructed[i].class = class
                                           /\ constructed[i].config = config
        IN /\ Selects("immediate", "ImmediateMeterEventStrategy")
           /\ Selects("batched", "BatchedUsageRecordStrategy")
           /\ (~usable \/ config.strategyType \notin {"immediate", "batched"}) =>
                 /\ factoryCall[c].result = "threw"
                 /\ factoryCall[c].error.kind = "ConfigurationError"
                 /\ Built(c) = {}

C21_Witness ==
    \E c, d \in FactoryCalls :
        /\ factoryCall[c].done /\ factoryCall[c].config.strategyType = "invalid"
        /\ factoryCall[c].config.stripeApiKey = "sk_test_123"
        /\ factoryCall[c].result = "threw"
        /\ factoryCall[d].done /\ factoryCall[d].strategy = "BatchedUsageRecordStrategy"
        /\ Len(constructed) = 1

\* ------------------------------------ ImmediateMeterEventStrategy claims
ImmediateStarts(t, op) == imCall[t].op = "none" /\ imCall'[t].op = op

\* C22: a recordUsage invocation of the immediate strategy with a non-empty
\* customer id and a positive usage value, made before disposal, issues
\* exactly one meterEvents.create call carrying its customer id and usage
\* value, in the invocation itself; an invalid or post-disposal invocation
\* issues none and is rejected; no call is ever issued at any other time, so
\* nothing is held back between invocations.
C22_OneEventPerCall ==
    [][/\ \A t \in ImmediateCalls : ImmediateStarts(t, "recordUsage") =>
             LET customerId == imCall'[t].customerId
                 usageValue == imCall'[t].usageValue
             IN IF ~imDisposed /\ ~Falsy(customerId) /\ usageValue > 0
                THEN /\ meterEvents' = Append(meterEvents,
                           [call |-> t,
                            params |-> [customer |-> customerId,
                                        value |-> usageValue,
                                        action |-> "increment"]])
                     /\ imCall'[t].pc = "awaiting"
                ELSE /\ meterEvents' = meterEvents
                     /\ imCall'[t].pc = "rejected"
       /\ (\A t \in ImmediateCalls : ~ImmediateStarts(t, "recordUsage"))
              => meterEvents' = meterEvents]_vars

C22_Witness ==
    \E t, u, w \in ImmediateCalls :
        /\ imCall[t].op = "recordUsage" /\ imCall[t].pc = "resolved"
        /\ imCall[u].op = "recordUsage" /\ imCall[u].usageValue = 0
        /\ imCall[u].pc = "rejected"
        /\ imCall[w].op = "recordUsage" /\ imCall[w].pc = "awaiting"
        /\ Len(meterEvents) = 2

\* C23: dispose() of the immediate strategy sets the disposed flag and does
\* nothing else, a second dispose() changes nothing, the flag never goes
\* back, and every recordUsage started after it is rejected with the
\* disposed error whatever its arguments.
C23_ImmediateDispose ==
    [][/\ imDisposed => imDisposed'
       /\ \A t \in ImmediateCalls : ImmediateStarts(t, "dispose") =>
             /\ imDisposed'
             /\ imCall'[t].pc = "resolved"
             /\ meterEvents' = meterEvents
             /\ \A u \in ImmediateCalls \ {t} : imCall'[u] = imCall[u]
       /\ \A t \in ImmediateCalls : (ImmediateStarts(t, "recordUsage") /\ imDisposed) =>
             /\ imCall'[t].pc = "rejected"
             /\ imCall'[t].err = "Error"
             /\ imCall'[t].message = "Strategy has been disposed and cannot record usage"
             /\ meterEvents' = meterEvents]_vars

C23_Witness ==
    /\ imDisposed
    /\ \E t, u, w \in ImmediateCalls :
        /\ t < u /\ u < w
        /\ imCall[t].op = "dispose" /\ imCall[u].op = "dispose"
        /\ imCall[w].op = "recordUsage" /\ imCall[w].customerId = ""
        /\ imCall[w].err = "Error"


\* --------------------------------------------------------------- C24
\* C24: recordUsage of the batching strategy checks the disposed flag first
\* (lifecycle error), then a missing or empty customerId (invalid input),
\* then usageValue <= 0 (invalid input); the error thrown is that of the
\* first check that fails, and a call that passes all three goes on to the
\* resolver.
C24_PreconditionOrder ==
    [][\A t \in Calls : Starts(t, "recordUsage") =>
          LET customerId == task'[t].customerId
              usageValue == task'[t].usageValue
              Throws(kind, message) == /\ task'[t].pc = "rejected"
                                       /\ task'[t].err = kind
                                       /\ task'[t].msg = message
          IN IF disposed
             THEN Throws("Lifecycle",
                         "Strategy has been disposed and cannot record usage")
             ELSE IF customerId \in {"", Undefined}
             THEN Throws("InvalidInput", "Customer ID is required")
             ELSE IF usageValue <= 0
             THEN Throws("InvalidInput", "Usage value must be greater than zero")
             ELSE task'[t].pc = "resolving" /\ task'[t].err = ""]_vars

C24_Witness ==
    \E t, u \in Calls :
        /\ task[t].op = "recordUsage" /\ task[t].customerId = ""
        /\ task[t].usageValue = 0 /\ task[t].msg = "Customer ID is required"
        /\ task[u].op = "recordUsage" /\ task[u].customerId = ""
        /\ task[u].usageValue = 0 /\ task[u].err = "Lifecycle"


\* --------------------------------------------------------------- C25
\* C25: flushBatch on a key the Map does not hold, or whose array is empty,
\* returns at once without error, issues no createUsageRecord call and
\* leaves the Map as it is; the two cases end in the same way.
C25_EmptyFlushIsNoOp ==
    [][\A t \in Calls : Starts(t, "flushBatch") =>
          LET key == task'[t].keys[1]
          IN (~Has(key) \/ pendingUsage[key] = <<>>) =>
                /\ task'[t] = [IdleTask EXCEPT !.op = "flushBatch",
                                               !.pc = "resolved", !.keys = <<key>>]
                /\ StoreUnchanged
                /\ NoBackendCall
                /\ acked' = acked]_vars

C25_Witness ==
    \E t, u \in Calls :
        /\ task[t].op = "flushBatch" /\ task[t].pc = "resolved"
        /\ ~Has(task[t].keys[1])
        /\ task[u].op = "flushBatch" /\ task[u].pc = "resolved"
        /\ Has(task[u].keys[1]) /\ pendingUsage[task[u].keys[1]] = <<>>
        /\ \A k \in Keys : submitted[k] = 0

\* --------------------------------------------------------------- C26
\* C26: when createUsageRecord rejects, flushBatch(K) has changed neither
\* K's array nor any other key's, in the step that issued the call and in
\* the step that handles the rejection, and it throws a StripeApiError whose
\* message names K and the original message, whose cause is the rejected
\* Error, and which carries the code and status when the backend set both.
C26_FailedFlushKeepsBatch ==
    [][\A t \in Calls :
          /\ (Starts(t, "flushBatch") /\ task'[t].pc = "flushing") => StoreUnchanged
          /\ (task[t].op = "flushBatch" /\ task[t].pc = "flushing"
                 /\ task'[t].pc = "rejected") =>
                LET K == task[t].req.key
                    thrown == task'[t].thrown
                    error == task'[t].error
                IN /\ StoreUnchanged
                   /\ pendingUsage'[K] # <<>> \/ pendingUsage[K] = <<>>
                   /\ error.kind = "StripeApiError"
                   /\ error.message =
                         <<"Failed to flush usage records for subscription item ",
                           K, ": ", thrown.message>>
                   /\ thrown.isError => error.cause = thrown
                   /\ ~thrown.isError => /\ error.cause.isError
                                         /\ error.cause.message = thrown.message
                   /\ (thrown.code # "" /\ thrown.statusCode # 0) =>
                         /\ error.stripeCode = thrown.code
                         /\ error.statusCode = thrown.statusCode]_vars

C26_Witness ==
    \E t \in Calls : \E k \in Keys :
        /\ task[t].op = "flushBatch" /\ task[t].pc = "rejected"
        /\ task[t].error.stripeCode = "rate_limit" /\ task[t].error.statusCode = 429
        /\ Len(pendingUsage[task[t].keys[1]]) = 2
        /\ k # task[t].keys[1] /\ pendingUsage[k] # <<>>


\* --------------------------------------------------------------- C27
\* task t starts a sweep in this step
SweepBegins(t) ==
    \/ Starts(t, "timer")
    \/ Starts(t, "dispose") /\ ~disposed /\ flushOnDispose

IsPrefix(a, b) == Len(a) <= Len(b) /\ \A i \in 1..Len(a) : a[i] = b[i]

\* C27: a sweep takes the keys the Map holds when it starts and keeps that
\* list; it calls flushBatch on them one after the other, each once; it never
\* rejects, and it returns only when every key of the list has been attempted
\* and no call is in flight, so a key set after the start is not attempted.
C27_SweepAttemptsSnapshot ==
    [][\A t \in Calls :
          /\ SweepBegins(t) => task'[t].keys = keyOrder
          /\ IsSweep(t) => task'[t].keys = task[t].keys
          /\ task'[t].op \in {"timer", "dispose"} =>
                /\ IsPrefix(task'[t].attempted, task'[t].keys)
                /\ task'[t].pc # "rejected"
                /\ task'[t].pc = "resolved" =>
                      /\ task'[t].attempted = task'[t].keys
                      /\ task'[t].req = NoReq
          /\ (IsSweep(t) /\ Refused(t)) =>
                /\ task'[t].attempted = task[t].attempted
                /\ task'[t].pc = "sweeping"]_vars

\* a sweep that started when the Map held one key is over; a second key set
\* during its flush was not attempted and is still pending
C27_Witness ==
    \E t \in Calls : \E k \in Keys :
        /\ IsSweep(t) /\ task[t].pc = "resolved"
        /\ Len(keyOrder) = 2 /\ task[t].keys = <<keyOrder[1]>>
        /\ task[t].attempted = task[t].keys
        /\ k = keyOrder[2] /\ pendingUsage[k] # <<>> /\ submitted[k] = 0

\* --------------------------------------------------------------- C28
\* C28: when the resolver returns, recordUsage appends one entry with its own
\* customerId and usageValue at the end of the array of the resolved key,
\* setting the key in the Map if it was absent; the entries already there
\* keep their places and every other key's array is unchanged.
C28_AppendsOneEntry ==
    [][\A t \in Calls :
          (task[t].pc = "resolving" /\ task'[t].resolver = "returned") =>
             LET key == KeyOf(task[t].customerId)
             IN /\ pendingUsage'[key] =
                      Append(pendingUsage[key],
                             [customerId |-> task[t].customerId,
                              usageValue |-> task[t].usageValue, call |-> t])
                /\ \A k \in Keys \ {key} : pendingUsage'[k] = pendingUsage[k]
                /\ keyOrder' = IF key \in Range(keyOrder) THEN keyOrder
                               ELSE Append(keyOrder, key)
                /\ task'[t].pc \in {"resolved", "flushing"}]_vars

C28_Witness ==
    /\ keyOrder = <<"si_2", "si_1">>
    /\ Len(pendingUsage["si_2"]) = 1
    /\ Len(pendingUsage["si_1"]) = 2
    /\ pendingUsage["si_1"][1].usageValue = 1
    /\ pendingUsage["si_1"][2].usageValue = 2

\* --------------------------------------------------------------- C29
\* the recordUsage calls whose resolver returned key k
ReturnedFor(k) ==
    {t \in Calls : /\ task[t].op = "recordUsage" /\ task[t].resolver = "returned"
                   /\ KeyOf(task[t].customerId) = k}

\* C29: as long as no flush of a key has been acknowledged, the key's array
\* holds exactly one entry for every recordUsage call whose resolver returned
\* that key, with that call's customerId and usageValue, however the calls
\* overlapped while they waited for the resolver.
C29_NoEntryLost ==
    \A k \in Keys : acked[k] = 0 =>
        /\ Len(pendingUsage[k]) = Cardinality(ReturnedFor(k))
        /\ \A t \in ReturnedFor(k) : \E i \in 1..Len(pendingUsage[k]) :
              pendingUsage[k][i] = [customerId |-> task[t].customerId,
                                    usageValue |-> task[t].usageValue, call |-> t]

\* two calls for si_1 overlapped at the resolver: the one started later
\* pushed first, and both entries are there with their own quantities
C29_Witness ==
    \E t, u \in Calls :
        /\ t < u /\ acked["si_1"] = 0
        /\ Len(pendingUsage["si_1"]) = 2
        /\ pendingUsage["si_1"][1].call = u /\ pendingUsage["si_1"][2].call = t
        /\ pendingUsage["si_1"][1].usageValue = task[u].usageValue
        /\ pendingUsage["si_1"][2].usageValue = task[t].usageValue
        /\ task[t].usageValue # task[u].usageValue

\* --------------------------------------------------------------- C30
\* C30: the flush a recordUsage call starts at the size trigger is for the
\* key the call resolved to; from its start to its end that call issues no
\* createUsageRecord for another key and changes no other key's array, also
\* when other arrays hold maxBatchSize entries or more.
C30_TriggerFlushesOwnKey ==
    [][\A t \in Calls : task[t].op = "recordUsage" =>
          /\ BeginsFlush(t) =>
                LET key == KeyOf(task[t].customerId)
                IN /\ task'[t].req.key = key
                   /\ \A k \in Keys \ {key} : /\ submitted'[k] = submitted[k]
                                              /\ pendingUsage'[k] = pendingUsage[k]
          /\ (task[t].pc = "flushing" /\ task'[t].pc # "flushing") =>
                /\ task'[t].pc \in {"resolved", "rejected"}
                /\ submitted' = submitted
                /\ \A k \in Keys \ {task[t].req.key} :
                      pendingUsage'[k] = pendingUsage[k]]_vars

C30_Witness ==
    \E t \in Calls :
        /\ task[t].op = "recordUsage" /\ task[t].pc = "resolved"
        /\ task[t].nflush = 1 /\ KeyOf(task[t].customerId) = "si_1"
        /\ pendingUsage["si_1"] = <<>> /\ acked["si_1"] > 0
        /\ Len(pendingUsage["si_2"]) >= MaxBatchSize /\ submitted["si_2"] = 0


\* --------------------------------------------------------------- C31
\* C31: when the resolver or the size-triggered flushBatch throws inside
\* recordUsage, the call rejects with an Error: the thrown Error itself,
\* unchanged, if it is one (the StripeApiError of flushBatch always is), and
\* otherwise a new Error whose message carries the string form of the value.
C31_CatchKeepsErrors ==
    [][\A t \in Calls :
          (task[t].op = "recordUsage" /\ task[t].pc \in {"resolving", "flushing"}
              /\ task'[t].pc = "rejected") =>
             LET caught == task'[t].caught
                 rejection == task'[t].rejection
             IN /\ rejection.isError
                /\ caught.isError => rejection = caught
                /\ ~caught.isError =>
                      /\ rejection.kind = "Error"
                      /\ rejection.message =
                            <<"Unknown error in recordUsage: ">> \o caught.message
                /\ task[t].pc = "resolving" => caught \in ResolverErrors
                /\ task[t].pc = "flushing" => caught.kind = "StripeApiError"]_vars

C31_Witness ==
    \E t, u \in Calls :
        /\ task[t].op = "recordUsage" /\ task[t].pc = "rejected"
        /\ task[t].caught.kind = "string" /\ task[t].rejection.kind = "Error"
        /\ task[u].op = "recordUsage" /\ task[u].pc = "rejected"
        /\ task[u].rejection.kind = "StripeApiError"


\* --------------------------------------------------------------- C32
\* sum of the usageValue of the entries pushed by the calls of S
RECURSIVE SumCalls(_)
SumCalls(S) ==
    IF S = {} THEN 0
    ELSE LET c == CHOOSE x \in S : TRUE
         IN task[c].usageValue + SumCalls(S \ {c})

\* entries of key k not yet acknowledged: in its array or in a request in flight
AwaitingReport(k) ==
    EntryCalls(pendingUsage[k])
       \cup UNION {task[t].snap : t \in {u \in Calls : InFlight(u, k)}}

\* C32: with a backend that never fails, for every key the quantities of all
\* entries ever pushed to it equal the quantities the backend has acknowledged
\* for it plus the quantities of the entries still in its array or in a
\* createUsageRecord in flight.
C32_Conservation ==
    \A k \in Keys :
        SumCalls(ReturnedFor(k)) = acked[k] + SumCalls(AwaitingReport(k))


\* --------------------------------------------------------------- C33
\* C33: once disposed is true no step changes the Map or any of its arrays
\* and no step issues a createUsageRecord, whichever call takes the step: a
\* recordUsage resuming from the resolver included.
C33_DisposedIsQuiet ==
    [][disposed => /\ StoreUnchanged
                   /\ \A t \in Calls : ~BeginsFlush(t)]_vars


\* --------------------------------------------------------------- C34
\* dispose calls whose flushAllBatches is still running
DisposalSweeps ==
    {t \in Calls : task[t].op = "dispose" /\ task[t].pc \in {"sweeping", "flushing"}}

\* C34: however dispose calls overlap, clearInterval has run at most once and
\* at most one dispose call is running flushAllBatches (disposed is set when
\* the first finishes, so two disposal sweeps can only exist together).
C34_OneDisposalSweep ==
    /\ timerClears <= 1
    /\ Cardinality(DisposalSweeps) <= 1


\* --------------------------------------------------------------- C35
\* C35: every createUsageRecord awaiting its answer carries a quantity
\* greater than zero, computed from at least one entry, and every entry held
\* in an array has a usageValue greater than zero.
C35_PositiveQuantity ==
    /\ \A t \in Calls :
          task[t].pc = "flushing" =>
             /\ task[t].req.quantity > 0
             /\ task[t].snap # {}
    /\ \A k \in Keys : \A i \in 1..Len(pendingUsage[k]) :
          pendingUsage[k][i].usageValue > 0

C35_Witness ==
    \E t, u \in Calls :
        /\ IsSweep(t) /\ task[t].pc = "resolved" /\ task[t].nflush = 1
        /\ IsSweep(u) /\ task[u].pc = "resolved"
        /\ task[u].attempted # <<>> /\ task[u].nflush = 0
        /\ \E k \in Keys : acked[k] > 0 /\ pendingUsage[k] = <<>>


\* --------------------------------------------------------------- C36
\* C36: while a key has entries left behind by a failed flush, (a) a flush of
\* the key that begins submits the sum of the whole array, the retained
\* entries and those pushed since, and (b) an entry leaves the array only
\* when a flush whose aggregate included it is acknowledged, which then
\* empties the array.
C36_RetainedAreRetried ==
    [][\A k \in Keys : failedPending[k] =>
          /\ \A t \in Calls :
                (BeginsFlush(t) /\ task'[t].req.key = k) =>
                   /\ task'[t].snap = EntryCalls(pendingUsage'[k])
                   /\ task'[t].req.quantity = SumUsage(pendingUsage'[k])
          /\ \A c \in EntryCalls(pendingUsage[k]) \ EntryCalls(pendingUsage'[k]) :
                \E u \in Calls : /\ Acknowledged(u) /\ task[u].req.key = k
                                 /\ c \in task[u].snap
                                 /\ pendingUsage'[k] = <<>>]_vars


\* --------------------------------------------------------------- C37
\* C37: on a strategy that stays Active with no recordUsage call arriving,
\* whose timer keeps firing and whose backend ends up succeeding, every
\* array of the Map is eventually empty, with no request left in flight
\* that was computed from it.
C37_SweepDrains ==
    <>(\A k \in Keys : pendingUsage[k] = <<>> /\ sinceAck[k] = <<>>)

C37_Witness ==
    /\ \A k \in Keys : pendingUsage[k] = <<>>
    /\ acked["si_1"] > 0 /\ acked["si_2"] > 0
    /\ \E t \in Calls : task[t].op = "timer" /\ task[t].failed # {}
    /\ task[MaxSweeps].op = "timer" /\ task[MaxSweeps].pc = "resolved"
    /\ task[MaxSweeps].nflush >= 1

====
